---- MODULE Spec2Model ----
(***************************************************************************)
(* Model of the two example notebooks of the repository:                   *)
(*   notebook 1  "Demonstrate use of SFR/LAK/UZF with SFT/LKT/UZT" (no3)   *)
(*   notebook 2  "MODFLOW-USG - Discontinuous water table configuration    *)
(*                over a stairway impervious base" (zaidel)                *)
(* A behaviour is one top-to-bottom execution of one notebook in a fresh   *)
(* kernel.  Every statement (or group of plain assignments) is a step; a   *)
(* step that calls into a library or the operating system may raise.  An   *)
(* exception that no try block of the notebook catches stops the           *)
(* execution at that step.                                                 *)
(***************************************************************************)
EXTENDS Integers, Sequences, FiniteSets, TLC

VARIABLES
    nb,          \* which notebook is executed (1 or 2)
    pc,          \* position in the notebook: index into Steps(nb)
    status,      \* "running", "done" or "aborted"
    exc,         \* the last exception raised: the step and whether it was caught
    names,       \* the global names bound in the kernel so far
    sysPath,     \* TRUE once sys.path.append(fpth) has run
    dirExists,   \* the directory modelpth exists
    files,       \* the files in modelpth, as <<base name, extension>>
    solver,      \* the external solver process: "idle", "running", "finished"
    written,     \* the models whose write_input() has completed
    mfpkgs,      \* the packages instantiated on mf, in order
    mtpkgs,      \* the packages instantiated on mt, in order
    headOpen,    \* notebook 2: headobj is an open HeadFile
    nlay, nrow, ncol, delr, delc,
    h1, h2,      \* notebook 2: boundary heads
    x,           \* notebook 2: cell centroid locations
    ibound,      \* notebook 2: ibound array, indexed <<layer, row, column>>
    botm,        \* notebook 1: list of layer bottoms; notebook 2: array (nlay+1, nrow, ncol)
    base,        \* notebook 2: running base elevation of the botm loop
    strt,        \* notebook 2: starting heads
    k, i, j,     \* loop variables
    it,          \* number of iterations the current loop has completed
    dis,         \* what ModflowDis received
    bas,         \* what ModflowBas received
    Steady, nstp, tsmult, perlen,   \* notebook 1: per-stress-period lists
    finf,        \* notebook 1: infiltration rate per stress period (units of 1e-7)
    sp,          \* notebook 1: the GHB list
    LakArr_lyr1, \* notebook 1: lake array of layer 1, indexed <<row, column>>
    bdlknc_lyr1, \* notebook 1: lake-bed leakance of layer 1
    nlakes,      \* notebook 1: int(np.max(LakArr))
    nlkinit,     \* notebook 1: number of lakes given to LKT
    pk           \* notebook 1: what the other package constructors received

ctl   == <<nb, pc, status, exc, names, sysPath>>
fsys  == <<dirExists, files, solver, written, headOpen>>
pkgs  == <<mfpkgs, mtpkgs>>
grid  == <<nlay, nrow, ncol, delr, delc, h1, h2>>
arr2  == <<x, ibound, botm, base, strt>>
loop  == <<k, i, j, it>>
recs  == <<dis, bas>>
per   == <<Steady, nstp, tsmult, perlen, finf>>
lake  == <<LakArr_lyr1, bdlknc_lyr1, nlakes, nlkinit>>
nb1   == <<per, sp, lake, pk>>
vars  == <<ctl, fsys, pkgs, grid, arr2, loop, recs, nb1>>

----------------------------------------------------------------------------
(* The statements of the notebooks, in the order of the cells.  A cell is   *)
(* cut into steps so that every call that may raise comes before the        *)
(* assignments of the step that the model records in a variable.            *)

(* UPW instantiated in the cell before DIS.                                 *)
Steps1_upwBeforeDis ==
    << "n1_imports", "n1_import", "n1_import_path", "n1_import_except",
       "n1_names", "n1_makedirs", "n1_mf",
       "n1_grid", "n1_meshgrid", "n1_oc", "n1_nwt",
       "n1_upw",
       "n1_dis_load", "n1_dis_elev", "n1_dis_data", "n1_dis",
       "n1_bas",
       "n1_ghb_init", "n1_ghb_loop", "n1_ghb_loop2", "n1_ghb",
       "n1_sfr",
       "n1_lak_load", "n1_lak_arr", "n1_lak_bed1", "n1_lak_bed",
       "n1_lak_loop", "n1_lak",
       "n1_gage", "n1_uzf_data", "n1_uzf", "n1_drn", "n1_lmt",
       "n1_mt", "n1_btn_data", "n1_btn", "n1_adv", "n1_gcg", "n1_dsp",
       "n1_ssm", "n1_rct",
       "n1_sft", "n1_uzt", "n1_lkt_data", "n1_lkt",
       "n1_write_mf", "n1_write_mt" >>

Steps1 ==
    << "n1_imports", "n1_import", "n1_import_path", "n1_import_except",
       "n1_names", "n1_makedirs", "n1_mf",
       "n1_grid", "n1_meshgrid", "n1_oc", "n1_nwt",
       "n1_dis_load", "n1_dis_elev", "n1_dis_data", "n1_dis",
       "n1_upw", "n1_bas",
       "n1_ghb_init", "n1_ghb_loop", "n1_ghb_loop2", "n1_ghb",
       "n1_sfr",
       "n1_lak_load", "n1_lak_arr", "n1_lak_bed1", "n1_lak_bed",
       "n1_lak_loop", "n1_lak",
       "n1_gage", "n1_uzf_data", "n1_uzf", "n1_drn", "n1_lmt",
       "n1_mt", "n1_btn_data", "n1_btn", "n1_adv", "n1_gcg", "n1_dsp",
       "n1_ssm", "n1_rct",
       "n1_sft", "n1_uzt", "n1_lkt_data", "n1_lkt",
       "n1_write_mf", "n1_write_mt" >>

Steps2_runBeforeWrite ==
    << "n2_imports", "n2_import", "n2_import_path", "n2_import_except",
       "n2_names", "n2_makedirs",
       "n2_params", "n2_x", "n2_ibound", "n2_botm_init", "n2_botm_loop",
       "n2_strt", "n2_mf", "n2_dis", "n2_bas", "n2_lpf", "n2_oc", "n2_sms",
       "n2_remove", "n2_remove_except", "n2_run_model", "n2_write_input",
       "n2_headfile", "n2_get_data", "n2_plot" >>

Steps2_readBeforeRun ==
    << "n2_imports", "n2_import", "n2_import_path", "n2_import_except",
       "n2_names", "n2_makedirs",
       "n2_params", "n2_x", "n2_ibound", "n2_botm_init", "n2_botm_loop",
       "n2_strt", "n2_mf", "n2_dis", "n2_bas", "n2_lpf", "n2_oc", "n2_sms",
       "n2_write_input", "n2_remove", "n2_remove_except",
       "n2_headfile", "n2_get_data", "n2_run_model", "n2_plot" >>

Steps2 ==
    << "n2_imports", "n2_import", "n2_import_path", "n2_import_except",
       "n2_names", "n2_makedirs",
       "n2_params", "n2_x", "n2_ibound", "n2_botm_init", "n2_botm_loop",
       "n2_strt", "n2_mf", "n2_dis", "n2_bas", "n2_lpf", "n2_oc", "n2_sms",
       "n2_write_input", "n2_remove", "n2_remove_except", "n2_run_model",
       "n2_headfile", "n2_get_data", "n2_plot" >>

Steps(n) == IF n = 1 THEN Steps1 ELSE Steps2

Cur == IF status = "running" /\ pc <= Len(Steps(nb)) THEN Steps(nb)[pc] ELSE "end"

(* The statements of the except blocks: they are entered only when the try  *)
(* body raised.                                                             *)
ExceptSteps ==
    { "n1_import_path", "n1_import_except",
      "n2_import_path", "n2_import_except", "n2_remove_except" }

(* run_model wrapped in a try block as well.                                *)
TrySteps_alsoRunModel == { "n1_import", "n2_import", "n2_remove", "n2_run_model" }

(* The statements that are the body of a try block: import flopy, and       *)
(* os.remove of the head file.  The imports before the try are not.         *)
TrySteps == { "n1_import", "n2_import", "n2_remove" }

InTry(s) == s \in TrySteps

(* The global names a step assigns, in the order of their first assignment  *)
(* in the step.                                                             *)
BindSeq(s) ==
    CASE s = "n1_imports" -> << "os", "sys", "platform", "np", "pd", "mpl", "plt" >>
      [] s = "n2_imports" -> << "os", "sys", "platform", "np", "mpl", "plt" >>
      [] s \in {"n1_import", "n2_import"} -> << "flopy" >>
      [] s \in {"n1_import_path", "n2_import_path"} -> << "fpth" >>
      [] s \in {"n1_import_except", "n2_import_except"} -> << "flopy" >>
      [] s = "n1_names"     -> << "modelpth", "modelname", "mfexe", "mtexe" >>
      [] s = "n2_names"     -> << "exe_name", "mfexe", "modelname", "modelpth" >>
      [] s = "n2_params"    -> << "nlay", "nrow", "ncol", "delr", "delc", "h1", "h2" >>
      [] s = "n2_x"         -> << "x" >>
      [] s = "n2_ibound"    -> << "ibound" >>
      [] s = "n2_botm_init" -> << "botm", "base" >>
      [] s = "n2_botm_loop" -> << "j", "base" >>
      [] s = "n2_strt"      -> << "strt" >>
      [] s = "n1_grid"      -> << "Lx", "Ly", "nrow", "ncol", "nlay", "delr", "delc",
                                 "xmax", "ymax" >>
      [] s = "n1_meshgrid"  -> << "X", "Y" >>
      [] s = "n1_nwt"       -> << "headtol", "fluxtol", "maxiterout", "thickfact",
                                 "linmeth", "iprnwt", "ibotav", "nwt" >>
      [] s = "n1_dis_load"  -> << "elv_pth", "grndElv", "bt1_pth", "bot1Elv" >>
      [] s = "n1_dis_elev"  -> << "bot2Elv", "bot3Elv", "botm" >>
      [] s = "n1_dis_data"  -> << "botm", "Steady", "nstp", "tsmult", "perlen" >>
      [] s = "n1_upw"       -> << "hdry", "iphdry", "laytyp", "layavg", "chani",
                                 "layvka", "laywet", "hk", "vka", "ss", "sy", "upw" >>
      [] s = "n1_bas"       -> << "ibnd1_pth", "ibnd1", "ibnd2", "ibnd3", "ibnd",
                                 "StHd1_pth", "StHd1", "StHd2_pth", "StHd2",
                                 "StHd3_pth", "StHd3", "strtElev", "hdry", "bas" >>
      [] s = "n1_ghb_init"  -> << "elev_stpt_row1", "elev_stpt_row300", "elev_slp",
                                 "sp" >>
      [] s = "n1_ghb_loop"  -> << "k", "i", "j" >>
      [] s = "n1_ghb_loop2" -> << "k", "j" >>
      [] s = "n1_ghb"       -> << "ghb" >>
      [] s = "n1_sfr"       -> << "rpth", "reach_data", "spth", "ss_segment_data",
                                 "segment_data", "nstrm", "nss", "nsfrpar", "const",
                                 "dleak", "ipakcb", "istcb2", "isfropt", "dataset_5",
                                 "sfr" >>
      [] s = "n1_lak_load"  -> << "LakArr_pth", "LakArr_lyr1" >>
      [] s = "n1_lak_arr"   -> << "LakArr_lyr2", "LakArr_lyr3", "LakArr", "nlakes",
                                 "ipakcb", "theta", "nssitr", "sscncr", "surfdep",
                                 "stages" >>
      [] s = "n1_lak_bed1"  -> << "bdlknc_lyr1" >>
      [] s = "n1_lak_bed"   -> << "bdlknc_lyr2", "bdlknc_lyr3" >>
      [] s = "n1_lak_loop"  -> << "i", "j", "im1", "ip1", "jm1", "jp1" >>
      [] s = "n1_lak"       -> << "bdlknc", "flux_data", "lak" >>
      [] s = "n1_gage"      -> << "gages", "files", "numgage", "gage" >>
      [] s = "n1_uzf_data"  -> << "nuztop", "iuzfopt", "irunflg", "ietflg", "iuzfcb",
                                 "iuzfcb2", "ntrail2", "nsets2", "nuzgag", "surfdep",
                                 "eps", "thts", "thti", "fname_uzbnd", "fname_runbnd",
                                 "iuzfbnd", "irunbnd", "uzgag", "finf" >>
      [] s = "n1_uzf"       -> << "uzf" >>
      [] s = "n1_drn"       -> << "fname_drnElv", "fname_drnCond", "drnElv", "drnCond",
                                 "drnElv_lst", "stress_period_data", "drn" >>
      [] s = "n1_lmt"       -> << "lmt" >>
      [] s = "n1_mt"        -> << "mt" >>
      [] s = "n1_btn_data"  -> << "ncomp", "lunit", "sconc", "prsity", "cinact",
                                 "thkmin", "nprs", "nprobs", "nprmas", "dt0", "nstp",
                                 "mxstrn", "ttsmult", "ttsmax", "obs" >>
      [] s = "n1_btn"       -> << "btn" >>
      [] s = "n1_adv"       -> << "mixelm", "percel", "mxpart", "nadvfd", "adv" >>
      [] s = "n1_gcg"       -> << "mxiter", "iter1", "isolve", "ncrs", "accl",
                                 "cclose", "iprgcg", "gcg" >>
      [] s = "n1_dsp"       -> << "al", "trpt", "trpv", "dmcoef", "dsp" >>
      [] s = "n1_ssm"       -> << "mxss", "ssm" >>
      [] s = "n1_rct"       -> << "isothm", "ireact", "irctop", "igetsc", "ireaction",
                                 "rc1", "rc2", "rct" >>
      [] s = "n1_sft"       -> << "nsfinit", "mxsfbc", "icbcsf", "ioutobs", "isfsolv",
                                 "wimp", "wups", "cclosesf", "mxitersf", "crntsf",
                                 "iprtxmd", "coldsf", "dispsf", "obs_sf",
                                 "sf_stress_period_data", "gage_output", "sft" >>
      [] s = "n1_uzt"       -> << "mxuzcon", "icbcuz", "iet", "wc", "sdh", "uzt" >>
      [] s = "n1_lkt_data"  -> << "nlkinit", "mxlkbc", "icbclk", "ietlak", "coldlak",
                                 "lkt_flux_data" >>
      [] s = "n1_lkt"       -> << "lkt" >>
      [] s = "n1_write_mf"  -> << "pth" >>
      [] s \in {"n1_mf", "n2_mf"} -> << "mf" >>
      [] s \in {"n1_dis", "n2_dis"} -> << "dis" >>
      [] s = "n2_bas"       -> << "bas" >>
      [] s = "n2_lpf"       -> << "lpf" >>
      [] s \in {"n1_oc", "n2_oc"} -> << "oc" >>
      [] s = "n2_sms"       -> << "sms" >>
      [] s = "n2_headfile"  -> << "headfile", "headobj" >>
      [] s = "n2_get_data"  -> << "times", "mfusghead" >>
      [] s = "n2_plot"      -> << "fig", "ax", "leg" >>
      [] OTHER              -> << >>

(* The first n names a step assigns.                                        *)
Bound(s, n) == { BindSeq(s)[m] : m \in 1 .. n }

(* The global names a step binds when it completes.                         *)
Binds(s) == Bound(s, Len(BindSeq(s)))

(* The calls of a step that may raise, each given as the number of names    *)
(* of the step already assigned when the call is made.  Imports, calls into *)
(* numpy, pandas, matplotlib and flopy, and os.makedirs, os.remove,         *)
(* os.getcwd and os.path.abspath (which asks for the working directory of   *)
(* a relative path) may raise; os.path.join, os.path.isdir,                 *)
(* platform.system, sys.path.append, print, len, int, float, range,         *)
(* str.format and list.append do not.  The calls in the headers of the      *)
(* loops are in LoopRaise, os.remove in N2Remove.                           *)
RaisePoints(s) ==
    CASE s = "n1_imports" -> 0 .. 6
      [] s = "n2_imports" -> 0 .. 5
      [] s \in {"n1_import", "n2_import", "n1_import_except", "n2_import_except"} -> {0}
      [] s \in {"n1_import_path", "n2_import_path"} -> {0}
      [] s \in {"n1_makedirs", "n2_makedirs"} -> {0}
      [] s \in {"n1_mf", "n2_mf", "n1_oc", "n2_oc", "n1_dis", "n2_dis", "n2_bas",
                "n2_lpf", "n2_sms", "n1_ghb", "n1_uzf", "n1_lmt", "n1_mt", "n1_btn",
                "n1_lkt", "n1_write_mt", "n2_write_input", "n2_run_model"} -> {0}
      [] s \in {"n1_meshgrid", "n2_x", "n2_ibound", "n2_botm_init", "n2_strt"} -> {0}
      [] s = "n1_nwt"       -> {7}
      [] s = "n1_dis_load"  -> {1, 3}
      [] s = "n1_dis_elev"  -> {0, 1}
      [] s = "n1_dis_data"  -> {0}
      [] s = "n1_upw"       -> {11}
      [] s = "n1_bas"       -> {1, 2, 3, 5, 6, 8, 10, 12, 13}
      [] s = "n1_sfr"       -> {1, 3, 5, 14}
      [] s = "n1_lak_load"  -> {1}
      [] s = "n1_lak_arr"   -> {0, 1, 3}
      [] s = "n1_lak_bed1"  -> {0}
      [] s = "n1_lak_bed"   -> {0, 1}
      [] s = "n1_lak"       -> {1, 2}
      [] s = "n1_gage"      -> {3}
      [] s = "n1_uzf_data"  -> {15, 16}
      [] s = "n1_drn"       -> {2, 3, 4, 5, 6}
      [] s = "n1_adv"       -> {4}
      [] s = "n1_gcg"       -> {7}
      [] s = "n1_dsp"       -> {4}
      [] s = "n1_ssm"       -> {1}
      [] s = "n1_rct"       -> {7}
      [] s = "n1_sft"       -> {16}
      [] s = "n1_uzt"       -> {0, 3, 4, 5}
      [] s = "n1_write_mf"  -> {0, 1}
      [] s = "n2_headfile"  -> {1}
      [] s = "n2_get_data"  -> {0, 1}
      [] s = "n2_plot"      -> {0, 1, 2, 3}
      [] OTHER              -> {}

NoExc == [step |-> "none", caught |-> FALSE]

(* The first statement at or after position p that is not in an except      *)
(* block.                                                                   *)
RECURSIVE SkipExcept(_)
SkipExcept(p) ==
    IF p <= Len(Steps(nb)) /\ Steps(nb)[p] \in ExceptSteps
    THEN SkipExcept(p + 1) ELSE p

(* Position after step number p completed normally: inside an except block  *)
(* the next statement, elsewhere the next statement that is not in an       *)
(* except block.                                                            *)
After(p) ==
    IF Steps(nb)[p] \in ExceptSteps THEN p + 1 ELSE SkipExcept(p + 1)

(* The step completes: its names are bound and execution moves on.          *)
Advance ==
    /\ pc' = After(pc)
    /\ status' = IF After(pc) > Len(Steps(nb)) THEN "done" ELSE "running"
    /\ names' = names \cup Binds(Steps(nb)[pc])
    /\ UNCHANGED <<nb, exc, sysPath>>

(* The step raises at a call made when n of its names are assigned: the     *)
(* names stay bound; a try body hands over to its except block, anything    *)
(* else stops the execution at the step.                                    *)
RaiseAt(n) ==
    /\ exc' = [step |-> Steps(nb)[pc], caught |-> InTry(Steps(nb)[pc])]
    /\ IF InTry(Steps(nb)[pc])
       THEN pc' = pc + 1 /\ status' = "running"
       ELSE pc' = pc /\ status' = "aborted"
    /\ names' = names \cup Bound(Steps(nb)[pc], n)
    /\ UNCHANGED <<nb, sysPath>>

----------------------------------------------------------------------------
(* Python and numpy helpers.                                                *)

(* A negative index counts from the end of an axis of length n.             *)
PyIndex(idx, n) == IF idx < 0 THEN idx + n ELSE idx

(* np.arange(start, stop, step) for step > 0: ceil((stop - start) / step)   *)
(* values start + c * step.                                                 *)
ArangeLen(start, stop, step) ==
    IF stop <= start THEN 0 ELSE (stop - start + step - 1) \div step

Arange(start, stop, step) ==
    [c \in 0 .. (ArangeLen(start, stop, step) - 1) |-> start + c * step]

(* value * np.ones(shape) for a 3-d shape.                                  *)
Full(n0, n1, n2, value) ==
    [c \in (0 .. (n0 - 1)) \X (0 .. (n1 - 1)) \X (0 .. (n2 - 1)) |-> value]

(* a[:, :, col] = value on an array of shape (n0, n1, n2).                  *)
SetColumn(a, n2, col, value) ==
    [c \in DOMAIN a |-> IF c[3] = PyIndex(col, n2) THEN value ELSE a[c]]

(* a[lay, :, col] = value.                                                  *)
SetLayerColumn(a, lay, col, value) ==
    [c \in DOMAIN a |-> IF c[1] = lay /\ c[3] = col THEN value ELSE a[c]]

(* a[lay, :, :] of an array of shape (n0, n1, n2).                          *)
LayerOf(a, lay, n1, n2) ==
    [c \in (0 .. (n1 - 1)) \X (0 .. (n2 - 1)) |-> a[<<lay, c[1], c[2]>>]]

(* a[1:, :, :] of an array of shape (n0, n1, n2).                           *)
FromLayer1(a, n0, n1, n2) ==
    [c \in (0 .. (n0 - 2)) \X (0 .. (n1 - 1)) \X (0 .. (n2 - 1)) |->
        a[<<c[1] + 1, c[2], c[3]>>]]

Range(s) == { s[n] : n \in DOMAIN s }

ModelName == IF nb = 1 THEN "no3" ELSE "zaidel"

hds == <<"zaidel", "hds">>

----------------------------------------------------------------------------
(* Initial state: a fresh kernel; the working directory may or may not      *)
(* hold the model directory and files of an earlier run.                    *)

OldFiles(n) ==
    IF n = 1 THEN { <<"no3", "nam">> } ELSE { <<"zaidel", "nam">>, hds }

Init ==
    /\ nb \in {1, 2}
    /\ pc = 1
    /\ status = "running"
    /\ exc = NoExc
    /\ names = {}
    /\ sysPath = FALSE
    /\ dirExists \in BOOLEAN
    /\ files \in SUBSET OldFiles(nb)
    /\ (~dirExists => files = {})
    /\ solver = "idle"
    /\ written = {}
    /\ mfpkgs = <<>>
    /\ mtpkgs = <<>>
    /\ headOpen = FALSE
    /\ nlay = 0 /\ nrow = 0 /\ ncol = 0 /\ delr = 0 /\ delc = 0
    /\ h1 = 0 /\ h2 = 0
    /\ x = <<>> /\ ibound = <<>> /\ botm = <<>> /\ base = 0 /\ strt = <<>>
    /\ k = 0 /\ i = 0 /\ j = 0 /\ it = 0
    /\ dis = <<>> /\ bas = <<>>
    /\ Steady = <<>> /\ nstp = <<>> /\ tsmult = <<>> /\ perlen = <<>>
    /\ finf = <<>>
    /\ sp = <<>>
    /\ LakArr_lyr1 = <<>> /\ bdlknc_lyr1 = <<>>
    /\ nlakes = 0 /\ nlkinit = 0
    /\ pk = <<>>

----------------------------------------------------------------------------
(* Steps common to both notebooks.                                          *)

(* import os, sys, platform, numpy, (pandas,) matplotlib: before the try.   *)
Imports ==
    /\ Cur \in {"n1_imports", "n2_imports"}
    /\ Advance
    /\ UNCHANGED <<fsys, pkgs, grid, arr2, loop, recs, nb1>>

(* try: import flopy  -- the import succeeds.                               *)
ImportFlopy ==
    /\ Cur \in {"n1_import", "n2_import"}
    /\ Advance
    /\ UNCHANGED <<fsys, pkgs, grid, arr2, loop, recs, nb1>>

(* except: fpth = os.path.abspath(os.path.join("..", ".."))                 *)
(*         sys.path.append(fpth)                                            *)
ImportPath ==
    /\ Cur \in {"n1_import_path", "n2_import_path"}
    /\ pc' = After(pc)
    /\ status' = "running"
    /\ names' = names \cup Binds(Cur)
    /\ sysPath' = TRUE
    /\ UNCHANGED <<nb, exc>>
    /\ UNCHANGED <<fsys, pkgs, grid, arr2, loop, recs, nb1>>

(*         import flopy  -- the second import succeeds.                     *)
ImportExcept ==
    /\ Cur \in {"n1_import_except", "n2_import_except"}
    /\ Advance
    /\ UNCHANGED <<fsys, pkgs, grid, arr2, loop, recs, nb1>>

(* modelname, modelpth and the executable names.                            *)
SetNames ==
    /\ Cur \in {"n1_names", "n2_names"}
    /\ Advance
    /\ UNCHANGED <<fsys, pkgs, grid, arr2, loop, recs, nb1>>

(* if not os.path.isdir(modelpth): os.makedirs(modelpth, exist_ok=True)     *)
(* The directory removed and created anew whatever was there.               *)
MakeDirsResult_recreate(d, f) == << TRUE, {} >>

(* The directory and its files after the step, from those before it: a      *)
(* missing directory is created empty, an existing one is left alone.       *)
MakeDirsResult(d, f) == IF ~d THEN << TRUE, {} >> ELSE << d, f >>

MakeDirs ==
    /\ Cur \in {"n1_makedirs", "n2_makedirs"}
    /\ dirExists' = MakeDirsResult(dirExists, files)[1]
    /\ files' = MakeDirsResult(dirExists, files)[2]
    /\ Advance
    /\ UNCHANGED <<solver, written, headOpen>>
    /\ UNCHANGED <<pkgs, grid, arr2, loop, recs, nb1>>

(* mf = flopy.modflow.Modflow(...) / flopy.mfusg.MfUsg(...)                 *)
MakeModel ==
    /\ Cur \in {"n1_mf", "n2_mf"}
    /\ mfpkgs' = <<>>
    /\ Advance
    /\ UNCHANGED <<fsys, mtpkgs, grid, arr2, loop, recs, nb1>>

(* A call of the current step raises.  The directory step calls            *)
(* os.makedirs only when os.path.isdir is false.                            *)
Raise ==
    /\ status = "running"
    /\ Cur = "n2_run_model" => solver = "idle"
    /\ Cur \in {"n1_makedirs", "n2_makedirs"} => ~dirExists
    /\ \E n \in RaisePoints(Cur) : RaiseAt(n)
    /\ UNCHANGED <<fsys, pkgs, grid, arr2, loop, recs, nb1>>

----------------------------------------------------------------------------
(* Notebook 2 (zaidel).                                                     *)

N2Params ==
    /\ Cur = "n2_params"
    /\ nlay' = 1 /\ nrow' = 1 /\ ncol' = 200
    /\ delr' = 50
    /\ delc' = 1
    /\ h1' = 23
    /\ h2' = 5
    /\ Advance
    /\ UNCHANGED <<fsys, pkgs, arr2, loop, recs, nb1>>

(* x = np.arange(0.0, float(ncol) * delr, delr) + delr / 2.0                *)
Centroids(nc, dr) ==
    [c \in DOMAIN Arange(0, nc * dr, dr) |-> Arange(0, nc * dr, dr)[c] + dr \div 2]

N2X ==
    /\ Cur = "n2_x"
    /\ x' = Centroids(ncol, delr)
    /\ Advance
    /\ UNCHANGED <<fsys, pkgs, grid, ibound, botm, base, strt, loop, recs, nb1>>

(* The first column addressed with a 1-based index.                         *)
MakeIbound_oneBased(nl, nr, nc) ==
    SetColumn(SetColumn(Full(nl, nr, nc, 1), nc, 1, -1), nc, -1, -1)

(* ibound = np.ones(...); ibound[:, :, 0] = -1; ibound[:, :, -1] = -1       *)
MakeIbound(nl, nr, nc) ==
    SetColumn(SetColumn(Full(nl, nr, nc, 1), nc, 0, -1), nc, -1, -1)

N2Ibound ==
    /\ Cur = "n2_ibound"
    /\ ibound' = MakeIbound(nlay, nrow, ncol)
    /\ Advance
    /\ UNCHANGED <<fsys, pkgs, grid, x, botm, base, strt, loop, recs, nb1>>

(* botm = 25 * np.ones((nlay + 1, nrow, ncol)); base = 20.0                 *)
N2BotmInit ==
    /\ Cur = "n2_botm_init"
    /\ botm' = Full(nlay + 1, nrow, ncol, 25)
    /\ base' = 20
    /\ it' = 0
    /\ Advance
    /\ UNCHANGED <<fsys, pkgs, grid, x, ibound, strt, k, i, j, recs, nb1>>

(* The loop's test for stepping the base down (the commented-out variant).  *)
StepDown_modulo(jj) == jj > 0 /\ jj % 40 = 0

(* if j + 1 in [40, 80, 120, 160]                                           *)
StepDown(jj) == jj + 1 \in {40, 80, 120, 160}

(* One iteration of: for j in range(ncol), or the exit of the loop.         *)
N2BotmLoop ==
    /\ Cur = "n2_botm_loop"
    /\ IF it < ncol
       THEN /\ j' = it
            /\ botm' = SetLayerColumn(botm, 1, it, base)
            /\ base' = IF StepDown(it) THEN base - 5 ELSE base
            /\ it' = it + 1
            /\ names' = names \cup Binds(Cur)
            /\ UNCHANGED <<nb, pc, status, exc, sysPath>>
       ELSE /\ Advance
            /\ UNCHANGED <<botm, base, j, it>>
    /\ UNCHANGED <<fsys, pkgs, grid, x, ibound, strt, k, i, recs, nb1>>

(* strt = h1 * np.ones(...); strt[:, :, -1] = h2                            *)
MakeStrt(nl, nr, nc, a, b) == SetColumn(Full(nl, nr, nc, a), nc, -1, b)

N2Strt ==
    /\ Cur = "n2_strt"
    /\ strt' = MakeStrt(nlay, nrow, ncol, h1, h2)
    /\ Advance
    /\ UNCHANGED <<fsys, pkgs, grid, x, ibound, botm, base, loop, recs, nb1>>

(* dis = flopy.modflow.ModflowDis(mf, nlay, nrow, ncol, delr=..., ...)      *)
N2DisArgs ==
    [nlay |-> nlay, nrow |-> nrow, ncol |-> ncol, nper |-> 1,
     delr |-> delr, delc |-> delc,
     top |-> LayerOf(botm, 0, nrow, ncol),
     botm |-> FromLayer1(botm, nlay + 1, nrow, ncol),
     perlen |-> 1, nstp |-> 1, steady |-> TRUE]

N2Dis ==
    /\ Cur = "n2_dis"
    /\ dis' = N2DisArgs
    /\ mfpkgs' = Append(mfpkgs, "DIS")
    /\ Advance
    /\ UNCHANGED <<fsys, mtpkgs, grid, arr2, loop, bas, nb1>>

(* bas = flopy.modflow.ModflowBas(mf, ibound=ibound, strt=strt)             *)
N2Bas ==
    /\ Cur = "n2_bas"
    /\ bas' = [ibound |-> ibound, strt |-> strt]
    /\ mfpkgs' = Append(mfpkgs, "BAS6")
    /\ Advance
    /\ UNCHANGED <<fsys, mtpkgs, grid, arr2, loop, dis, nb1>>

(* The package a plain constructor step adds to mf.                         *)
MfPackage(s) ==
    CASE s = "n2_lpf" -> "LPF"
      [] s = "n2_oc"  -> "OC"
      [] s = "n2_sms" -> "SMS"
      [] s = "n1_oc"  -> "OC"
      [] s = "n1_nwt" -> "NWT"
      [] s = "n1_upw" -> "UPW"
      [] s = "n1_gage" -> "GAGE"
      [] s = "n1_lmt" -> "LMT"
      [] OTHER -> "none"

AddMfPackage ==
    /\ MfPackage(Cur) # "none"
    /\ mfpkgs' = Append(mfpkgs, MfPackage(Cur))
    /\ Advance
    /\ UNCHANGED <<fsys, mtpkgs, grid, arr2, loop, recs, nb1>>

(* mf.write_input(): the name file and one file per package.                *)
InputFiles(name, packages) ==
    { <<name, "nam">> } \cup { <<name, p>> : p \in Range(packages) }

WriteMf ==
    /\ Cur \in {"n1_write_mf", "n2_write_input"}
    /\ files' = files \cup InputFiles(ModelName, mfpkgs)
    /\ written' = written \cup {"mf"}
    /\ Advance
    /\ UNCHANGED <<dirExists, solver, headOpen>>
    /\ UNCHANGED <<pkgs, grid, arr2, loop, recs, nb1>>

(* try: os.remove(os.path.join(model_ws, "{0}.hds".format(modelname)))      *)
(* The argument is evaluated first: an unbound name raises NameError        *)
(* before os.remove is called; a missing file raises FileNotFoundError.     *)
N2Remove ==
    /\ Cur = "n2_remove"
    /\ IF "model_ws" \notin names \/ hds \notin files
       THEN RaiseAt(0) /\ UNCHANGED files
       ELSE Advance /\ files' = files \ {hds}
    /\ UNCHANGED <<dirExists, solver, written, headOpen>>
    /\ UNCHANGED <<pkgs, grid, arr2, loop, recs, nb1>>

(* except: pass                                                             *)
N2RemoveExcept ==
    /\ Cur = "n2_remove_except"
    /\ Advance
    /\ UNCHANGED <<fsys, pkgs, grid, arr2, loop, recs, nb1>>

(* mf.run_model(): start the solver process ...                             *)
RunModelSpawn ==
    /\ Cur = "n2_run_model"
    /\ solver = "idle"
    /\ solver' = "running"
    /\ UNCHANGED <<ctl, dirExists, files, written, headOpen>>
    /\ UNCHANGED <<pkgs, grid, arr2, loop, recs, nb1>>

(* ... the solver runs to its end, writing its listing and, on normal       *)
(* termination, the head file ...                                           *)
SolverFinish ==
    /\ solver = "running"
    /\ solver' = "finished"
    /\ \E normal \in BOOLEAN :
         files' = files \cup { <<"zaidel", "lst">> }
                        \cup (IF normal THEN {hds} ELSE {})
    /\ UNCHANGED <<ctl, dirExists, written, headOpen>>
    /\ UNCHANGED <<pkgs, grid, arr2, loop, recs, nb1>>

(* ... and run_model returns once the process has ended.                    *)
RunModelReturn ==
    /\ Cur = "n2_run_model"
    /\ solver = "finished"
    /\ Advance
    /\ UNCHANGED <<fsys, pkgs, grid, arr2, loop, recs, nb1>>

(* headobj = flopy.utils.HeadFile(headfile)                                 *)
N2HeadFile ==
    /\ Cur = "n2_headfile"
    /\ IF hds \in files
       THEN Advance /\ headOpen' = TRUE
       ELSE RaiseAt(1) /\ UNCHANGED headOpen
    /\ UNCHANGED <<dirExists, files, solver, written>>
    /\ UNCHANGED <<pkgs, grid, arr2, loop, recs, nb1>>

(* times = headobj.get_times(); mfusghead = headobj.get_data(...); plot     *)
N2ReadPlot ==
    /\ Cur \in {"n2_get_data", "n2_plot"}
    /\ headOpen
    /\ Advance
    /\ UNCHANGED <<fsys, pkgs, grid, arr2, loop, recs, nb1>>

Next2 ==
    \/ N2Params \/ N2X \/ N2Ibound \/ N2BotmInit \/ N2BotmLoop \/ N2Strt
    \/ N2Dis \/ N2Bas \/ WriteMf \/ N2Remove \/ N2RemoveExcept
    \/ RunModelSpawn \/ SolverFinish \/ RunModelReturn
    \/ N2HeadFile \/ N2ReadPlot

----------------------------------------------------------------------------
(* Notebook 1 (no3).                                                        *)

(* Lx = Ly = 90000.0; nrow = ncol = 300; nlay = 3; delr = Lx / ncol         *)
N1Grid ==
    /\ Cur = "n1_grid"
    /\ nrow' = 300 /\ ncol' = 300 /\ nlay' = 3
    /\ delr' = 90000 \div 300
    /\ delc' = 90000 \div 300
    /\ Advance
    /\ UNCHANGED <<fsys, pkgs, h1, h2, arr2, loop, recs, nb1>>

(* X, Y = np.meshgrid(np.linspace(...), np.linspace(...))                   *)
N1MeshGrid ==
    /\ Cur = "n1_meshgrid"
    /\ Advance
    /\ UNCHANGED <<fsys, pkgs, grid, arr2, loop, recs, nb1>>

(* grndElv = np.loadtxt(elv_pth); bot1Elv = np.loadtxt(bt1_pth)             *)
N1DisLoad ==
    /\ Cur = "n1_dis_load"
    /\ Advance
    /\ UNCHANGED <<fsys, pkgs, grid, arr2, loop, recs, nb1>>

(* bot2Elv = np.ones(...) * 100; bot3Elv = np.zeros(...);                   *)
(* botm = [bot1Elv, bot2Elv, bot3Elv]                                       *)
N1DisElev ==
    /\ Cur = "n1_dis_elev"
    /\ botm' = << "bot1Elv", "bot2Elv", "bot3Elv" >>
    /\ Advance
    /\ UNCHANGED <<fsys, pkgs, grid, x, ibound, base, strt, loop, recs, nb1>>

(* botm = np.array(botm) and the stress-period lists; perlen is in          *)
(* hundredths of a day.                                                     *)
N1DisData ==
    /\ Cur = "n1_dis_data"
    /\ botm' = [n \in DOMAIN botm |-> botm[n]]
    /\ Steady' = << FALSE, FALSE >>
    /\ nstp' = << 1, 1 >>
    /\ tsmult' = << 1, 1 >>
    /\ perlen' = << 913125, 913125 >>
    /\ Advance
    /\ UNCHANGED <<fsys, pkgs, grid, x, ibound, base, strt, loop, recs>>
    /\ UNCHANGED <<finf, sp, lake, pk>>

(* ModflowDis(mf, nrow, ncol, nlay, ...): the three sizes in another order. *)
N1DisArgs_sizesRotated ==
    [nlay |-> nrow, nrow |-> ncol, ncol |-> nlay, nper |-> 2,
     delr |-> delr, delc |-> delc, top |-> "grndElv", botm |-> botm,
     laycbd |-> 0, itmuni |-> 4, lenuni |-> 1,
     steady |-> Steady, nstp |-> nstp, tsmult |-> tsmult, perlen |-> perlen]

(* dis = flopy.modflow.ModflowDis(mf, nlay, nrow, ncol, nper=2, ...)        *)
N1DisArgs ==
    [nlay |-> nlay, nrow |-> nrow, ncol |-> ncol, nper |-> 2,
     delr |-> delr, delc |-> delc, top |-> "grndElv", botm |-> botm,
     laycbd |-> 0, itmuni |-> 4, lenuni |-> 1,
     steady |-> Steady, nstp |-> nstp, tsmult |-> tsmult, perlen |-> perlen]

N1Dis ==
    /\ Cur = "n1_dis"
    /\ dis' = N1DisArgs
    /\ mfpkgs' = Append(mfpkgs, "DIS")
    /\ Advance
    /\ UNCHANGED <<fsys, mtpkgs, grid, arr2, loop, bas, nb1>>

(* ibnd, strtElev loaded; bas = ModflowBas(mf, ibound=ibnd, ..., strt=...)  *)
N1Bas ==
    /\ Cur = "n1_bas"
    /\ bas' = [ibound |-> "ibnd", hnoflo |-> 999, strt |-> "strtElev"]
    /\ mfpkgs' = Append(mfpkgs, "BAS6")
    /\ Advance
    /\ UNCHANGED <<fsys, mtpkgs, grid, arr2, loop, dis, nb1>>

(* sp = []                                                                  *)
N1GhbInit ==
    /\ Cur = "n1_ghb_init"
    /\ sp' = <<>>
    /\ it' = 0
    /\ Advance
    /\ UNCHANGED <<fsys, pkgs, grid, arr2, k, i, j, recs, per, lake, pk>>

(* The lists the GHB loops run over.                                        *)
GhbLayers == << 0, 1, 2 >>
GhbRows   == << 0, 299 >>
GhbCols   == Arange(0, 300, 1)
GhbCols2  == Arange(26, 32, 1)

(* if (i == 1 and (j < 27 or j > 31)) or (i == 299 and (j < 26 or j > 31))  *)
GhbCond(ii, jj) ==
    \/ (ii = 1 /\ (jj < 27 \/ jj > 31))
    \/ (ii = 299 /\ (jj < 26 \/ jj > 31))

(* [k, i, j, elev_stpt_rowN - (elev_slp * (j - 1)), 11.3636]: the head is   *)
(* kept as the starting elevation and the number of slopes subtracted, the  *)
(* conductance in units of 1e-4.                                            *)
GhbEntry(kk, ii, jj) ==
    << kk, ii, jj,
       [from |-> IF ii % 2 = 0 THEN "elev_stpt_row1" ELSE "elev_stpt_row300",
        slopes |-> jj - 1],
       113636 >>

(* One iteration of the nested loops over k, i, j, or their exit.           *)
N1GhbLoop ==
    /\ Cur = "n1_ghb_loop"
    /\ LET nj == ArangeLen(0, 300, 1)
           ni == Len(GhbRows)
           kk == GhbLayers[(it \div (ni * nj)) + 1]
           ii == GhbRows[((it \div nj) % ni) + 1]
           jj == GhbCols[it % nj]
       IN  IF it < Len(GhbLayers) * ni * nj
           THEN /\ k' = kk /\ i' = ii /\ j' = jj
                /\ sp' = IF GhbCond(ii, jj) THEN Append(sp, GhbEntry(kk, ii, jj))
                         ELSE sp
                /\ it' = it + 1
                /\ names' = names \cup Binds(Cur)
                /\ UNCHANGED <<nb, pc, status, exc, sysPath>>
           ELSE /\ Advance
                /\ it' = 0
                /\ UNCHANGED <<k, i, j, sp>>
    /\ UNCHANGED <<fsys, pkgs, grid, arr2, recs, per, lake, pk>>

(* for k in [0, 1, 2]: for j in np.arange(26, 32, 1):                       *)
(*     sp.append([k, 299, j, 238.20, 3409.0801])                            *)
N1GhbLoop2 ==
    /\ Cur = "n1_ghb_loop2"
    /\ LET nj == ArangeLen(26, 32, 1)
           kk == GhbLayers[(it \div nj) + 1]
           jj == GhbCols2[it % nj]
       IN  IF it < Len(GhbLayers) * nj
           THEN /\ k' = kk /\ j' = jj
                /\ sp' = Append(sp, << kk, 299, jj,
                                       [from |-> "238.20", slopes |-> 0],
                                       34090801 >>)
                /\ it' = it + 1
                /\ names' = names \cup Binds(Cur)
                /\ UNCHANGED <<nb, pc, status, exc, sysPath, i>>
           ELSE /\ Advance
                /\ it' = 0
                /\ UNCHANGED <<k, i, j, sp>>
    /\ UNCHANGED <<fsys, pkgs, grid, arr2, recs, per, lake, pk>>

(* The lake array of layer 1 is read from lakarr1.txt.  The file is read    *)
(* here at a reduced size; it marks the cells of the single lake with 1.    *)
LakRows == 2
LakCols == 2

LakCells == (0 .. (LakRows - 1)) \X (0 .. (LakCols - 1))

LakeArrays == { a \in [LakCells -> {0, 1}] : \E c \in LakCells : a[c] = 1 }

(* A count of the lake cells in place of the largest lake id.               *)
NLakes_countCells(a) == Cardinality({ c \in DOMAIN a : a[c] # 0 })

(* nlakes = int(np.max(LakArr)), LakArr being layer 1 over two layers of 0. *)
NLakes(a) ==
    CHOOSE m \in { a[c] : c \in DOMAIN a } \cup {0} :
        \A c \in DOMAIN a : a[c] <= m /\ 0 <= m

(* LakArr_lyr1 = np.loadtxt(LakArr_pth)                                     *)
N1LakLoad ==
    /\ Cur = "n1_lak_load"
    /\ \E a \in LakeArrays : LakArr_lyr1' = a
    /\ Advance
    /\ UNCHANGED <<fsys, pkgs, grid, arr2, loop, recs, per, sp, pk>>
    /\ UNCHANGED <<bdlknc_lyr1, nlakes, nlkinit>>

(* LakArr_lyr2, LakArr_lyr3 = zeros; LakArr = np.array([...]);              *)
(* nlakes = int(np.max(LakArr)); ipakcb ... stages                          *)
N1LakArr ==
    /\ Cur = "n1_lak_arr"
    /\ nlakes' = NLakes(LakArr_lyr1)
    /\ Advance
    /\ UNCHANGED <<fsys, pkgs, grid, arr2, loop, recs, per, sp, pk>>
    /\ UNCHANGED <<LakArr_lyr1, bdlknc_lyr1, nlkinit>>

(* bdlknc_lyr1 = LakArr_lyr1.copy()                                         *)
N1LakBed1 ==
    /\ Cur = "n1_lak_bed1"
    /\ bdlknc_lyr1' = LakArr_lyr1
    /\ Advance
    /\ UNCHANGED <<fsys, pkgs, grid, arr2, loop, recs, per, sp, pk>>
    /\ UNCHANGED <<LakArr_lyr1, nlakes, nlkinit>>

(* bdlknc_lyr2 = LakArr_lyr1.copy(); bdlknc_lyr3 = np.zeros(...)            *)
N1LakBed ==
    /\ Cur = "n1_lak_bed"
    /\ Advance
    /\ UNCHANGED <<fsys, pkgs, grid, arr2, loop, recs, nb1>>

(* The loop body testing the array it writes instead of LakArr_lyr1: a      *)
(* cell marked in an earlier iteration then marks its own neighbours.       *)
ExpandAt_inPlace(b, a, ii, jj, rows, cols) ==
    LET im1 == ii - 1
        ip1 == ii + 1
        jm1 == jj - 1
        jp1 == jj + 1
        b1 == IF im1 >= 0 /\ b[<<ii, jj>>] = 1 /\ b[<<im1, jj>>] = 0
              THEN [b EXCEPT ![<<im1, jj>>] = 1] ELSE b
        b2 == IF ip1 < rows /\ b1[<<ii, jj>>] = 1 /\ b1[<<ip1, jj>>] = 0
              THEN [b1 EXCEPT ![<<ip1, jj>>] = 1] ELSE b1
        b3 == IF jm1 >= 0 /\ b2[<<ii, jj>>] = 1 /\ b2[<<ii, jm1>>] = 0
              THEN [b2 EXCEPT ![<<ii, jm1>>] = 1] ELSE b2
        b4 == IF jp1 < cols /\ b3[<<ii, jj>>] = 1 /\ b3[<<ii, jp1>>] = 0
              THEN [b3 EXCEPT ![<<ii, jp1>>] = 1] ELSE b3
    IN  b4

(* The body of the expansion loop at cell (ii, jj) of an array of shape     *)
(* (rows, cols): the four guarded assignments, in the order of the code.    *)
ExpandAt(b, a, ii, jj, rows, cols) ==
    LET im1 == ii - 1
        ip1 == ii + 1
        jm1 == jj - 1
        jp1 == jj + 1
        b1 == IF im1 >= 0 /\ a[<<ii, jj>>] = 1 /\ a[<<im1, jj>>] = 0
              THEN [b EXCEPT ![<<im1, jj>>] = 1] ELSE b
        b2 == IF ip1 < rows /\ a[<<ii, jj>>] = 1 /\ a[<<ip1, jj>>] = 0
              THEN [b1 EXCEPT ![<<ip1, jj>>] = 1] ELSE b1
        b3 == IF jm1 >= 0 /\ a[<<ii, jj>>] = 1 /\ a[<<ii, jm1>>] = 0
              THEN [b2 EXCEPT ![<<ii, jm1>>] = 1] ELSE b2
        b4 == IF jp1 < cols /\ a[<<ii, jj>>] = 1 /\ a[<<ii, jp1>>] = 0
              THEN [b3 EXCEPT ![<<ii, jp1>>] = 1] ELSE b3
    IN  b4

(* One iteration of the loops over i and j, or their exit.                  *)
N1LakLoop ==
    /\ Cur = "n1_lak_loop"
    /\ IF it < LakRows * LakCols
       THEN /\ i' = it \div LakCols
            /\ j' = it % LakCols
            /\ bdlknc_lyr1' = ExpandAt(bdlknc_lyr1, LakArr_lyr1,
                                       it \div LakCols, it % LakCols,
                                       LakRows, LakCols)
            /\ it' = it + 1
            /\ names' = names \cup Binds(Cur)
            /\ UNCHANGED <<nb, pc, status, exc, sysPath>>
       ELSE /\ Advance
            /\ it' = 0
            /\ UNCHANGED <<i, j, bdlknc_lyr1>>
    /\ UNCHANGED <<fsys, pkgs, grid, arr2, k, recs, per, sp, pk>>
    /\ UNCHANGED <<LakArr_lyr1, nlakes, nlkinit>>

(* The np.arange call in the header of an inner loop raises: the variables  *)
(* of the enclosing loops are assigned for the new pass, the variable of    *)
(* the inner loop is not.  The outer header of the lake loop makes its      *)
(* call before i is assigned.                                               *)
LoopRaise ==
    /\ \/ /\ Cur = "n1_ghb_loop"
          /\ it < Len(GhbLayers) * Len(GhbRows) * ArangeLen(0, 300, 1)
          /\ it % ArangeLen(0, 300, 1) = 0
          /\ k' = GhbLayers[(it \div (Len(GhbRows) * ArangeLen(0, 300, 1))) + 1]
          /\ i' = GhbRows[((it \div ArangeLen(0, 300, 1)) % Len(GhbRows)) + 1]
          /\ RaiseAt(2)
       \/ /\ Cur = "n1_ghb_loop2"
          /\ it < Len(GhbLayers) * ArangeLen(26, 32, 1)
          /\ it % ArangeLen(26, 32, 1) = 0
          /\ k' = GhbLayers[(it \div ArangeLen(26, 32, 1)) + 1]
          /\ i' = i
          /\ RaiseAt(1)
       \/ /\ Cur = "n1_lak_loop"
          /\ it = 0
          /\ k' = k /\ i' = i
          /\ RaiseAt(0)
       \/ /\ Cur = "n1_lak_loop"
          /\ it < LakRows * LakCols
          /\ it % LakCols = 0
          /\ k' = k
          /\ i' = it \div LakCols
          /\ RaiseAt(1)
    /\ UNCHANGED <<j, it>>
    /\ UNCHANGED <<fsys, pkgs, grid, arr2, recs, per, sp, lake, pk>>

(* A package constructor of notebook 1 that is given data of interest: the  *)
(* package is added to its model and what it received is recorded.          *)
Received(s) ==
    CASE s = "n1_ghb" -> [stress_period_data |-> "sp"]
      [] s = "n1_sfr" ->
           [segment_data |-> (0 :> "ss_segment_data" @@ 1 :> "ss_segment_data"),
            dataset_5 |-> (0 :> [itmp |-> "nss", irdflg |-> 0, iptflg |-> 0]
                        @@ 1 :> [itmp |-> "-1", irdflg |-> 0, iptflg |-> 0])]
      [] s = "n1_lak" ->
           [nlakes |-> nlakes, lakarr |-> "LakArr", bdlknc |-> "bdlknc",
            flux_data |-> (0 :> << <<73, 73, 0, 0>> >> @@ 1 :> << <<73, 73, 0, 0>> >>)]
      [] s = "n1_uzf" -> [iuzfbnd |-> 1, irunbnd |-> 0, uzgag |-> "uzgag"]
      [] s = "n1_drn" ->
           [stress_period_data |-> (0 :> "stress_period_data" @@ 1 :> "stress_period_data")]
      [] s = "n1_sft" ->
           [sf_stress_period_data |->
               (0 :> <<0, 0, 0>> @@ 1 :> <<0, 0, 0>> @@ 2 :> <<0, 0, 0>>)]
      [] s = "n1_lkt" ->
           [nlkinit |-> nlkinit,
            lk_stress_period_data |->
               (0 :> << <<0, 1, 1667>> >> @@ 1 :> << <<0, 1, 2667>> >>)]

PackageOf(s) ==
    CASE s = "n1_ghb" -> "GHB" [] s = "n1_sfr" -> "SFR" [] s = "n1_lak" -> "LAK"
      [] s = "n1_uzf" -> "UZF" [] s = "n1_drn" -> "DRN" [] s = "n1_sft" -> "SFT"
      [] s = "n1_lkt" -> "LKT"

N1MfData ==
    /\ Cur \in {"n1_ghb", "n1_sfr", "n1_lak", "n1_uzf", "n1_drn"}
    /\ pk' = (PackageOf(Cur) :> Received(Cur)) @@ pk
    /\ mfpkgs' = Append(mfpkgs, PackageOf(Cur))
    /\ Advance
    /\ UNCHANGED <<fsys, mtpkgs, grid, arr2, loop, recs, per, sp, lake>>

(* nuztop ... irunbnd = np.loadtxt(...); uzgag; finf = {0: 1.8250e-03,      *)
(* 1: 1.8250e-03}                                                           *)
N1UzfData ==
    /\ Cur = "n1_uzf_data"
    /\ finf' = (0 :> 18250 @@ 1 :> 18250)
    /\ Advance
    /\ UNCHANGED <<fsys, pkgs, grid, arr2, loop, recs, sp, lake, pk>>
    /\ UNCHANGED <<Steady, nstp, tsmult, perlen>>

(* nlkinit = 1; mxlkbc ... coldlak; lkt_flux_data = {...}                   *)
N1LktData ==
    /\ Cur = "n1_lkt_data"
    /\ nlkinit' = 1
    /\ Advance
    /\ UNCHANGED <<fsys, pkgs, grid, arr2, loop, recs, per, sp, pk>>
    /\ UNCHANGED <<LakArr_lyr1, bdlknc_lyr1, nlakes>>

(* sft = flopy.mt3d.Mt3dSft(mt, ...); lkt = flopy.mt3d.Mt3dLkt(mt, ...)     *)
N1MtData ==
    /\ Cur \in {"n1_sft", "n1_lkt"}
    /\ pk' = (PackageOf(Cur) :> Received(Cur)) @@ pk
    /\ mtpkgs' = Append(mtpkgs, PackageOf(Cur))
    /\ Advance
    /\ UNCHANGED <<fsys, mfpkgs, grid, arr2, loop, recs, per, sp, lake>>

(* mt = flopy.mt3d.Mt3dms(modflowmodel=mf, ...)                             *)
N1Mt ==
    /\ Cur = "n1_mt"
    /\ mtpkgs' = <<>>
    /\ Advance
    /\ UNCHANGED <<fsys, mfpkgs, grid, arr2, loop, recs, nb1>>

(* ncomp = 1; ...; nstp = 1; ...; obs = [...]                               *)
N1BtnData ==
    /\ Cur = "n1_btn_data"
    /\ nstp' = 1
    /\ Advance
    /\ UNCHANGED <<fsys, pkgs, grid, arr2, loop, recs>>
    /\ UNCHANGED <<Steady, tsmult, perlen, finf, sp, lake, pk>>

(* btn = flopy.mt3d.Mt3dBtn(mt, ..., nstp=nstp, ...)                        *)
N1Btn ==
    /\ Cur = "n1_btn"
    /\ mtpkgs' = Append(mtpkgs, "BTN")
    /\ Advance
    /\ UNCHANGED <<fsys, mfpkgs, grid, arr2, loop, recs, nb1>>

MtPackage(s) ==
    CASE s = "n1_adv" -> "ADV" [] s = "n1_gcg" -> "GCG" [] s = "n1_dsp" -> "DSP"
      [] s = "n1_ssm" -> "SSM" [] s = "n1_rct" -> "RCT" [] s = "n1_uzt" -> "UZT"
      [] OTHER -> "none"

AddMtPackage ==
    /\ MtPackage(Cur) # "none"
    /\ mtpkgs' = Append(mtpkgs, MtPackage(Cur))
    /\ Advance
    /\ UNCHANGED <<fsys, mfpkgs, grid, arr2, loop, recs, nb1>>

(* mt.write_input()                                                         *)
WriteMt ==
    /\ Cur = "n1_write_mt"
    /\ files' = files \cup { <<ModelName, "mtnam">> }
                      \cup { <<ModelName, p>> : p \in Range(mtpkgs) }
    /\ written' = written \cup {"mt"}
    /\ Advance
    /\ UNCHANGED <<dirExists, solver, headOpen>>
    /\ UNCHANGED <<pkgs, grid, arr2, loop, recs, nb1>>

Next1 ==
    \/ N1Grid \/ N1MeshGrid \/ N1DisLoad \/ N1DisElev \/ N1DisData \/ N1Dis
    \/ N1Bas \/ N1GhbInit \/ N1GhbLoop \/ N1GhbLoop2
    \/ N1LakLoad \/ N1LakArr \/ N1LakBed1 \/ N1LakBed \/ N1LakLoop \/ LoopRaise
    \/ N1MfData \/ N1UzfData \/ N1Mt \/ N1BtnData \/ N1Btn
    \/ N1LktData \/ N1MtData \/ AddMtPackage \/ WriteMt

Common ==
    \/ Imports \/ ImportFlopy \/ ImportPath \/ ImportExcept
    \/ SetNames \/ MakeDirs \/ MakeModel
    \/ AddMfPackage \/ Raise

Next == Common \/ Next1 \/ Next2

Spec == Init /\ [][Next]_vars

----------------------------------------------------------------------------
(* Properties.                                                              *)

Instantiated(models, p) == \E n \in DOMAIN models : models[n] = p

(* C1, as stated: each of the two notebooks, executed from top to bottom,   *)
(* has written its model input files and then invoked the external          *)
(* simulator (run_model) by the time the execution ends.                    *)
C1_BothNotebooksWriteThenRun ==
    /\ status = "done" => ("mf" \in written /\ solver # "idle")
    /\ solver # "idle" => "mf" \in written

(* C1, amended: the Zaidel notebook writes its input files and then runs    *)
(* the simulator before its execution ends; the SFT/LKT/UZT notebook writes *)
(* the input files of its flow and transport models and never invokes the   *)
(* simulator.                                                               *)
C1_WriteThenRunOnlyInZaidel ==
    /\ solver # "idle" => (nb = 2 /\ "mf" \in written)
    /\ (status = "done" /\ nb = 2) => ("mf" \in written /\ solver = "finished")
    /\ (status = "done" /\ nb = 1) => (written = {"mf", "mt"} /\ solver = "idle")

C1_Witness ==
    status = "done" /\ nb = 2 /\ written = {"mf"} /\ solver = "finished"

(* C2: in the Zaidel notebook the head file is opened, read and plotted     *)
(* only after run_model has returned, the solver process having finished;   *)
(* the solver is never running while the notebook reads or plots.           *)
C2_HeadReadAfterSolverFinished ==
    nb = 2 =>
        ((headOpen \/ Cur \in {"n2_headfile", "n2_get_data", "n2_plot"})
            => solver = "finished")

C2_Witness ==
    nb = 2 /\ headOpen /\ Cur = "n2_get_data" /\ solver = "finished"

(* The steps whose errors the notebooks are said to handle.                 *)
DirSteps     == { "n1_makedirs", "n2_makedirs" }
CleanupSteps == { "n2_remove" }
ImportSteps  == { "n1_import", "n2_import" }

Stopped(s) == ~exc.caught /\ status = "aborted" /\ Steps(nb)[pc] = s

(* C3, as stated: an exception raised by any step other than the            *)
(* directory-creation step and the output-cleanup step is not caught and    *)
(* stops the execution at that step.                                        *)
C3_OnlyDirAndCleanupHandled ==
    exc.step \notin {"none"} \cup DirSteps \cup CleanupSteps
        => Stopped(exc.step)

(* C3, amended: an exception raised by any step other than the flopy import *)
(* step, the directory-creation step and the output-cleanup step is not     *)
(* caught and stops the execution at that step.                             *)
C3_OnlyImportDirAndCleanupHandled ==
    exc.step \notin {"none"} \cup ImportSteps \cup DirSteps \cup CleanupSteps
        => Stopped(exc.step)

C3_Witness ==
    /\ sysPath
    /\ exc.step = "n2_run_model"
    /\ Stopped("n2_run_model")

(* C4: in the Zaidel notebook, after the "remove any existing head files"   *)
(* step and before run_model is called, modelpth holds no zaidel.hds.       *)
C4_NoHeadFileBeforeRun ==
    (nb = 2 /\ Cur = "n2_run_model" /\ solver = "idle") => hds \notin files

(* C5: the GHB list given to the GHB package has cells on row 0 and on row  *)
(* 299 in each of the 3 layers.                                             *)
C5_GhbOnBothEdges ==
    (nb = 1 /\ Instantiated(mfpkgs, "GHB")) =>
        \A kk \in 0 .. 2 : \A row \in {0, 299} :
            \E n \in DOMAIN sp : sp[n][1] = kk /\ sp[n][2] = row

(* C6: the Zaidel grid has 200 columns, 1 row and 1 layer; exactly the      *)
(* cells of column 1 and column 200 are constant-head cells (ibound = -1),  *)
(* with starting heads 23 and 5; every other cell is active (ibound = 1).   *)
C6_ZaidelGridAndBoundary ==
    (nb = 2 /\ Instantiated(mfpkgs, "BAS6")) =>
        /\ dis.ncol = 200 /\ dis.nrow = 1 /\ dis.nlay = 1
        /\ DOMAIN bas.ibound = {0} \X {0} \X (0 .. 199)
        /\ DOMAIN bas.strt = DOMAIN bas.ibound
        /\ \A c \in DOMAIN bas.ibound :
             /\ c[3] \in {0, 199} <=> bas.ibound[c] = -1
             /\ c[3] \notin {0, 199} => bas.ibound[c] = 1
        /\ bas.strt[<<0, 0, 0>>] = 23
        /\ bas.strt[<<0, 0, 199>>] = 5

C6_Witness ==
    /\ nb = 2 /\ Instantiated(mfpkgs, "BAS6")
    /\ bas.ibound[<<0, 0, 199>>] = -1 /\ bas.ibound[<<0, 0, 100>>] = 1

(* C7: the bottom built by the loop is 20 for columns 1-40, 15 for 41-80,   *)
(* 10 for 81-120, 5 for 121-160 and 0 for 161-200: it never rises from one  *)
(* column to the next and each step drops by exactly 5.                     *)
C7_StairwayBase ==
    (nb = 2 /\ Instantiated(mfpkgs, "DIS")) =>
        /\ \A c \in 0 .. 199 : botm[<<1, 0, c>>] = 20 - 5 * (c \div 40)
        /\ \A c \in 0 .. 198 :
             /\ botm[<<1, 0, c + 1>>] <= botm[<<1, 0, c>>]
             /\ botm[<<1, 0, c + 1>>] # botm[<<1, 0, c>>]
                  => botm[<<1, 0, c>>] - botm[<<1, 0, c + 1>>] = 5
        /\ dis.botm = [c \in {0} \X {0} \X (0 .. 199) |-> botm[<<1, 0, c[3]>>]]

C7_Witness ==
    /\ nb = 2 /\ Instantiated(mfpkgs, "DIS")
    /\ botm[<<1, 0, 39>>] = 20 /\ botm[<<1, 0, 40>>] = 15
    /\ botm[<<1, 0, 199>>] = 0

(* C8: the cell width delr given to DIS, and the spacing of the centroids   *)
(* x, is 5 m for all cells.                                                 *)
C8_FiveMetreCells ==
    (nb = 2 /\ Instantiated(mfpkgs, "DIS")) =>
        /\ dis.delr = 5
        /\ \A c \in 0 .. 198 : x[c + 1] - x[c] = 5

(* C9: DIS of the SFT/LKT/UZT model receives nrow = 300, ncol = 300,        *)
(* nlay = 3, nper = 2, a botm stack of exactly 3 layers, and steady, nstp,  *)
(* tsmult and perlen lists of exactly 2 entries each.                       *)
C9_DisDimensions ==
    (nb = 1 /\ Instantiated(mfpkgs, "DIS")) =>
        /\ dis.nrow = 300 /\ dis.ncol = 300 /\ dis.nlay = 3 /\ dis.nper = 2
        /\ Len(dis.botm) = 3
        /\ Len(dis.steady) = 2 /\ Len(dis.nstp) = 2
        /\ Len(dis.tsmult) = 2 /\ Len(dis.perlen) = 2

C9_Witness ==
    nb = 1 /\ Instantiated(mfpkgs, "DIS") /\ Instantiated(mtpkgs, "BTN")
       /\ nstp = 1 /\ status = "done"

Past(s) == \E n \in DOMAIN Steps(nb) : Steps(nb)[n] = s /\ pc > n

(* The in-grid neighbours up, down, left and right of a cell.               *)
Neighbours4(c) ==
    { d \in LakCells :
        \/ (d[2] = c[2] /\ (d[1] = c[1] - 1 \/ d[1] = c[1] + 1))
        \/ (d[1] = c[1] /\ (d[2] = c[2] - 1 \/ d[2] = c[2] + 1)) }

InstantiatedBefore(models, p, q) ==
    \E a, b \in DOMAIN models : a < b /\ models[a] = p /\ models[b] = q

(* C12: in the SFT/LKT/UZT notebook DIS is instantiated on the MODFLOW      *)
(* model before UPW, and both are instantiated before mf.write_input() is   *)
(* called.                                                                  *)
C12_DisThenUpwThenWrite ==
    nb = 1 =>
        /\ Instantiated(mfpkgs, "UPW") => InstantiatedBefore(mfpkgs, "DIS", "UPW")
        /\ (Cur = "n1_write_mf" \/ "mf" \in written) =>
               (Instantiated(mfpkgs, "DIS") /\ Instantiated(mfpkgs, "UPW"))

C12_Witness ==
    /\ nb = 1 /\ "mf" \in written
    /\ InstantiatedBefore(mfpkgs, "DIS", "UPW")

(* C13: every per-stress-period dictionary given to a package of the        *)
(* 2-stress-period model (SFR segment_data and dataset_5, LAK flux_data,    *)
(* the UZF infiltration finf, DRN stress_period_data, SFT                   *)
(* sf_stress_period_data, LKT lk_stress_period_data) has the key set        *)
(* {0, 1}: one entry for each of the two stress periods.                    *)
C13_OneEntryPerStressPeriod ==
    nb = 1 =>
        /\ Instantiated(mfpkgs, "SFR") =>
               /\ DOMAIN pk["SFR"].segment_data = {0, 1}
               /\ DOMAIN pk["SFR"].dataset_5 = {0, 1}
        /\ Instantiated(mfpkgs, "LAK") => DOMAIN pk["LAK"].flux_data = {0, 1}
        /\ Instantiated(mfpkgs, "UZF") => DOMAIN finf = {0, 1}
        /\ Instantiated(mfpkgs, "DRN") => DOMAIN pk["DRN"].stress_period_data = {0, 1}
        /\ Instantiated(mtpkgs, "SFT") => DOMAIN pk["SFT"].sf_stress_period_data = {0, 1}
        /\ Instantiated(mtpkgs, "LKT") => DOMAIN pk["LKT"].lk_stress_period_data = {0, 1}

(* One step taken at the directory statement.                               *)
DirStepKeepsDirectory ==
    Cur \in DirSteps =>
        /\ dirExists =>
               (status' = "running" /\ exc' = exc /\ dirExists' /\ files' = files)
        /\ pc' # pc =>
               /\ dirExists'
               /\ MakeDirsResult(dirExists', files') = << dirExists', files' >>

(* C14: the "make sure modelpth directory exists" step leaves the model     *)
(* directory existing, whether or not it existed before; when it already    *)
(* exists the step raises nothing and leaves its contents unchanged, and    *)
(* executing the step once more on its result changes nothing.              *)
C14_MakeDirsIdempotent == [][DirStepKeepsDirectory]_vars

C14_Witness ==
    /\ nb = 2 /\ Cur = "n2_params" /\ exc = NoExc
    /\ dirExists /\ files = { hds, <<"zaidel", "nam">> }

====
